---- MODULE Spec2Model ----
(***************************************************************************)
(* Poser (src/src/Main.cpp): a skeletal-mesh viewer.  main() imports one   *)
(* scene file, loads the first mesh (indices, vertices, bones and their    *)
(* vertex weights), the first animation (three keyframe sequences per      *)
(* bone) and the skeleton (parent links), and then runs the main loop:     *)
(* ++frameIndex, updateAnimation(), draw, glfwPollEvents().                *)
(*                                                                         *)
(* Indices are the program's own (0-based); a C++ container c is a TLA+    *)
(* sequence and c.at(i) is c[i + 1].  A Bone* into the bones vector is the *)
(* index of the bone it points to, nullptr is NullBone.                    *)
(*                                                                         *)
(* A glm::mat4 is modelled by the 2x2 homogeneous matrix of the affine map *)
(* of one axis, <<m11, m12, m21, m22>> in row order, with the true matrix  *)
(* product: associative, not commutative, and exact (integer entries).     *)
(***************************************************************************)
EXTENDS Integers, Sequences, FiniteSets, TLC

\* ---------------------------------------------------------------- bounds
\* Mesh bones of the scenes that vary the skeleton and the keyframes.
MaxBones == 3
\* Nodes of the node hierarchy.
MaxNodes == 3
\* Keys of one component (position, rotation, scaling) of one channel.
MaxKeys == 3
\* Mesh bones of the scenes that vary the vertex weights.
MaxSkinBones == 5
\* Main-loop iterations followed (the loop itself never ends on its own).
MaxFrames == 4
\* Input events of one run.
MaxEvents == 2

\* ------------------------------------------------------ program constants
\* cameraMinDistance (0.5f) and the initial cameraDistance (5.0f), in halves.
cameraMinDistance == 1
cameraDistanceInit == 10
\* The initial cameraAngle, glm::radians(45.0f), in units of pi / windowWidth
\* radians (the turn of one pixel of cursor travel): 640 / 4.
cameraAngleInit == 160
\* unsigned int frameIndex has 32 bits: it is kept as its two 16-bit halves,
\* <<high, low>>, each below HalfRange (the model checker's integers are
\* 32-bit signed ones).
HalfRange == 65536
\* The last element index the slot search of the weight loop can reach.
LastElement == 3
\* GLFW_MOUSE_BUTTON_LEFT, GLFW_PRESS.
GLFW_MOUSE_BUTTON_LEFT == 0
GLFW_PRESS == 1
\* nullptr as a Bone*, and the "unset" bone id of a vertex slot.
NullBone == -1
UnsetBoneId == -1

\* --------------------------------------------------------------- matrices
Identity == <<1, 0, 0, 1>>
\* A glm::mat4 that resize creates and nothing has written yet.
ZeroMat == <<0, 0, 0, 0>>

\* glm's operator*(mat, mat).
MatMul(A, B) ==
  << A[1] * B[1] + A[2] * B[3], A[1] * B[2] + A[2] * B[4],
     A[3] * B[1] + A[4] * B[3], A[3] * B[2] + A[4] * B[4] >>

\* glm::make_mat4(p): the values at p taken column by column.
MakeMat(p) == << p[1], p[3], p[2], p[4] >>
\* glm::transpose.
Transpose(M) == << M[1], M[3], M[2], M[4] >>
\* assimpToGlmMat4: row-major (assimp) data to a column-major (glm) matrix.
assimpToGlmMat4(data) == Transpose(MakeMat(data))

\* glm::translate(glm::mat4(1.0f), v), glm::scale(glm::mat4(1.0f), v) and
\* glm::toMat4(glm::quat(w, ., ., z)) restricted to the modelled axis.
Translate(v) == << 1, v, 0, 1 >>
Scale(v) == << v, 0, 0, 1 >>
ToMat(q) == << q[1] * q[1] - q[2] * q[2], 0, 0, 1 >>

\* c.at(i) of a container c.
At(c, i) == c[i + 1]

\* ----------------------------------------------------------------- scenes
(***************************************************************************)
(* What importer.ReadFile returns: the aiScene (imported = FALSE for a     *)
(* null scene).  A name (aiString) is a number: the program only compares  *)
(* names for equality.  nodes[1] is mRootNode; a node holds its name and   *)
(* its parent node (0 for the root), and its mChildren are the nodes that  *)
(* name it as parent, in index order.  A position or scaling key is the    *)
(* coordinate of the modelled axis, a rotation key the quaternion's        *)
(* <<w, z>>, an offset matrix its row-major data.                          *)
(***************************************************************************)
\* Bone names are 1, 2, ...; 0 is a name no mesh bone bears.
NodeNames(boneNames) == { boneNames[i] : i \in 1..Len(boneNames) } \cup {0}

SeqsUpTo(S, n) == UNION { [1..k -> S] : k \in 0..n }

Max(a, b) == IF a >= b THEN a ELSE b

RECURSIVE MaxOf(_)
MaxOf(s) == IF s = <<>> THEN 0 ELSE Max(s[Len(s)], MaxOf(SubSeq(s, 1, Len(s) - 1)))

\* Bone name lists up to renaming: each name is at most one more than the
\* names before it (names only matter by which of them are equal).
Canonical(s) == \A i \in 1..Len(s) : s[i] <= MaxOf(SubSeq(s, 1, i - 1)) + 1

BoneNameLists == { s \in SeqsUpTo(1..MaxBones, MaxBones) : Canonical(s) }

\* The shapes of the node hierarchies of n nodes: every node but the root
\* (node 1) has an earlier node as its parent.
TreeShapes ==
  [ n \in 1..MaxNodes |->
      { f \in [1..n -> 0..(n - 1)] :
          \A i \in 1..n : IF i = 1 THEN f[i] = 0 ELSE f[i] \in 1..(i - 1) } ]

\* The node hierarchy of shape `shape` whose nodes bear the names `names`.
NodeTree(names, shape) ==
  [ i \in 1..Len(names) |-> [mName |-> names[i], parent |-> shape[i]] ]

PositionKeys == << 0, 1, 2, 3, 4 >>
RotationKeys == << <<1, 0>>, <<0, 1>>, <<1, 0>>, <<0, 1>>, <<1, 0>> >>
ScalingKeys == << 1, 2, 3, 4, 5 >>

\* A channel of node `name` with nT position, nR rotation and nS scaling keys.
Channel(name, nT, nR, nS) ==
  [ mNodeName |-> name,
    mPositionKeys |-> SubSeq(PositionKeys, 1, nT),
    mRotationKeys |-> SubSeq(RotationKeys, 1, nR),
    mScalingKeys |-> SubSeq(ScalingKeys, 1, nS) ]

\* A channel with one key per component: translation by `name`, scaling by 2.
PoseChannel(name) ==
  [ mNodeName |-> name,
    mPositionKeys |-> << name >>,
    mRotationKeys |-> << <<1, 0>> >>,
    mScalingKeys |-> << 2 >> ]

\* Bone i of a mesh: its offset matrix is the translation by i + 1.
MeshBone(name, i, weights) ==
  [ mName |-> name, mOffsetMatrix |-> << 1, i + 1, 0, 1 >>, mWeights |-> weights ]

Scene(bonesOf, nVertices, channels, nodes) ==
  [ imported |-> TRUE, mNumMeshes |-> 1, mNumAnimations |-> 1,
    mBones |-> bonesOf, mNumVertices |-> nVertices,
    mFaces |-> IF nVertices = 0 THEN <<>> ELSE << <<0, nVertices - 1, 0>> >>,
    mChannels |-> channels, nodes |-> nodes ]

RootOnly == << [mName |-> 0, parent |-> 0] >>

NullScene ==
  [ imported |-> FALSE, mNumMeshes |-> 0, mNumAnimations |-> 0, mBones |-> <<>>,
    mNumVertices |-> 0, mFaces |-> <<>>, mChannels |-> <<>>, nodes |-> RootOnly ]

\* Scenes the importer accepts that hold no mesh, or no animation.
NoMeshScene == [ Scene(<<>>, 0, << PoseChannel(1) >>, RootOnly) EXCEPT !.mNumMeshes = 0 ]
NoMeshNoChannelScene == [ Scene(<<>>, 0, <<>>, RootOnly) EXCEPT !.mNumMeshes = 0 ]
NoAnimationScene ==
  [ Scene(<< MeshBone(1, 0, <<>>) >>, 1, <<>>, RootOnly) EXCEPT !.mNumAnimations = 0 ]

BaseScenes == { NullScene, NoMeshScene, NoMeshNoChannelScene, NoAnimationScene }

\* A skeleton scene: bones of the given names and a node hierarchy; one
\* channel per bone name.
SkeletonScene(names, tree) ==
  Scene([i \in 1..Len(names) |-> MeshBone(names[i], i - 1, <<>>)], 0,
        [k \in 1..MaxOf(names) |-> PoseChannel(k)], tree)

\* Keyframe scenes: bone 1 ("1") with every number of keys per component, or
\* with no channel at all; optionally its child bone 2 with l keys per component.
KeyframeScenes ==
  LET one == << MeshBone(1, 0, <<>>) >>
      two == << MeshBone(1, 0, <<>>), MeshBone(2, 1, <<>>) >>
      chain == << [mName |-> 1, parent |-> 0], [mName |-> 2, parent |-> 1] >>
      lens == 0..MaxKeys
  IN { Scene(one, 0, << Channel(1, a, b, c) >>, chain) : a \in lens, b \in lens, c \in lens }
     \cup { Scene(two, 0, << Channel(1, a, b, c), Channel(2, l, l, l) >>, chain) :
              a \in lens, b \in lens, c \in lens, l \in 1..MaxKeys }
     \cup { Scene(one, 0, <<>>, chain), Scene(two, 0, << Channel(2, 1, 1, 1) >>, chain),
            Scene(two, 0, << Channel(2, 1, 1, 1), Channel(0, 1, 1, 1),
                             Channel(1, 2, 2, 2), Channel(1, 1, 2, 1) >>, chain) }

\* A skin scene: two vertices, and bones 0..n-1 of which bone i weights the
\* vertices vs[i + 1]; its weight on vertex v is 10 * (i + 1) + v, so every
\* (bone, vertex, weight) triple differs from every other.
SkinVertexLists == { <<>>, <<0>>, <<1>>, <<0, 1>> }

SkinScene(vs) ==
  Scene([i \in 1..Len(vs) |->
           MeshBone(i, i - 1,
                    [j \in 1..Len(vs[i]) |->
                       [mVertexId |-> vs[i][j], mWeight |-> 10 * i + vs[i][j]]])],
        2, [k \in 1..Len(vs) |-> PoseChannel(k)], RootOnly)

\* The scene of the event scripts: bone 1 the child of bone 0, two keys per
\* component, one vertex weighted by both.
DemoScene ==
  Scene(<< MeshBone(2, 0, << [mVertexId |-> 0, mWeight |-> 30] >>),
           MeshBone(1, 1, << [mVertexId |-> 0, mWeight |-> 70] >>) >>,
        1, << Channel(1, 2, 2, 2), Channel(2, 2, 1, 2) >>,
        << [mName |-> 0, parent |-> 0], [mName |-> 1, parent |-> 1],
           [mName |-> 2, parent |-> 2] >>)

\* ----------------------------------------------------------- input events
(***************************************************************************)
(* What the window system delivers: the events of the run in order, each   *)
(* with the number of the glfwPollEvents call that dispatches it (the      *)
(* first call is number 1); no event arrives after the script.             *)
(***************************************************************************)
Events ==
  { [type |-> "cursor", x |-> x] : x \in {0, 3} }
  \cup { [type |-> "button", button |-> b[1], action |-> b[2]] :
           b \in { <<GLFW_MOUSE_BUTTON_LEFT, GLFW_PRESS>>, <<GLFW_MOUSE_BUTTON_LEFT, 0>>,
                   <<1, GLFW_PRESS>> } }
  \cup { [type |-> "scroll", y |-> y] : y \in {-1, 6} }
  \cup { [type |-> "close"] }

\* The script of the events es, dispatched by the calls numbered ps.
Script(es, ps) == [ i \in 1..Len(es) |-> [event |-> es[i], poll |-> ps[i]] ]

\* Call numbers for k events: they never decrease.
PollNumbers ==
  [ k \in 0..MaxEvents |->
      { f \in [1..k -> 1..MaxEvents] : \A i \in 1..k : i = 1 \/ f[i - 1] <= f[i] } ]

CloseAtOnce == << [event |-> [type |-> "close"], poll |-> 1] >>

\* --------------------------------------------------------------- the inputs
(***************************************************************************)
(* The runs followed: the scenes without mesh, animation or import and the *)
(* keyframe scenes, with no input event; every skeleton scene and every    *)
(* skin scene, the window closed during the first frame; the demo scene    *)
(* under every script.                                                     *)
(***************************************************************************)
PlainInput(sc, sr) ==
  \E s \in BaseScenes \cup KeyframeScenes : sc = s /\ sr = <<>>

SkeletonInput(sc, sr) ==
  \E names \in BoneNameLists : \E n \in 1..MaxNodes :
    \E nm \in [1..n -> NodeNames(names)] : \E shape \in TreeShapes[n] :
      sc = SkeletonScene(names, NodeTree(nm, shape)) /\ sr = CloseAtOnce

SkinInput(sc, sr) ==
  \E n \in 1..MaxSkinBones : \E vs \in [1..n -> SkinVertexLists] :
    sc = SkinScene(vs) /\ sr = CloseAtOnce

ScriptInput(sc, sr) ==
  \E k \in 0..MaxEvents : \E es \in [1..k -> Events] : \E ps \in PollNumbers[k] :
    sc = DemoScene /\ sr = Script(es, ps)

\* ------------------------------------------------------------------ state
VARIABLES
  pc,              \* where main() is
  scene,           \* the aiScene importer.ReadFile returns
  script,          \* the input events not yet dispatched
  vertices,        \* std::vector<Vertex> vertices
  indices,         \* std::vector<unsigned int> indices
  bones,           \* std::vector<Bone> bones
  boneTransforms,  \* std::vector<glm::mat4> boneTransforms
  frameIndex,      \* unsigned int frameIndex, as <<high, low>>
  mouseDown, cameraAngle, cameraDistance, lastMouseX,
  shouldClose,     \* the window's close flag (glfwWindowShouldClose)
  boneI, weightJ,  \* i and j of the bone and weight loops of main()
  frames,          \* iterations of the main loop begun
  log              \* what the main loop did, in order

vars ==
  << pc, scene, script, vertices, indices, bones, boneTransforms, frameIndex,
     mouseDown, cameraAngle, cameraDistance, lastMouseX, shouldClose,
     boneI, weightJ, frames, log >>

camera == << mouseDown, cameraAngle, cameraDistance, lastMouseX >>
geometry == << vertices, indices >>
animation == << bones, boneTransforms, frameIndex >>
loaders == << boneI, weightJ >>

\* The globals as their initialisers leave them, before main() runs.
Globals ==
  /\ vertices = <<>>
  /\ indices = <<>>
  /\ bones = <<>>
  /\ boneTransforms = <<>>
  /\ frameIndex = <<0, 0>>
  /\ mouseDown = FALSE
  /\ cameraAngle = cameraAngleInit
  /\ cameraDistance = cameraDistanceInit
  /\ lastMouseX = 0

Init ==
  /\ pc = "start"
  /\ \/ PlainInput(scene, script)
     \/ SkeletonInput(scene, script)
     \/ SkinInput(scene, script)
     \/ ScriptInput(scene, script)
  /\ Globals
  /\ shouldClose = FALSE
  /\ boneI = 0
  /\ weightJ = 0
  /\ frames = 0
  /\ log = <<>>

\* ------------------------------------------------------------ unsigned int
\* ++frameIndex on 32 bits.
UIntInc(f) ==
  IF f[2] + 1 < HalfRange THEN << f[1], f[2] + 1 >>
  ELSE << (f[1] + 1) % HalfRange, 0 >>

\* frameIndex % n for a size n >= 1: (high * 2^16 + low) mod n.
UIntMod(f, n) == (((f[1] % n) * (HalfRange % n)) + (f[2] % n)) % n

\* ---------------------------------------------------------------- loading
\* A value-initialised Bone (bones.resize): zero matrices, empty keyframe
\* vectors, a null parent.
NewBone ==
  [ inverseBindMatrix |-> ZeroMat, posedTransform |-> ZeroMat,
    translationKeyframes |-> <<>>, rotationKeyframes |-> <<>>, scaleKeyframes |-> <<>>,
    parent |-> NullBone ]

\* A vertex as the vertex loop leaves it: position and normal of the mesh
\* (vertex i of the scenes lies at i, with normal -i), no bone yet.
NewVertex(i) ==
  [ position |-> i, normal |-> 0 - i,
    boneIds |-> << UnsetBoneId, UnsetBoneId, UnsetBoneId, UnsetBoneId >>,
    boneWeights |-> << 0, 0, 0, 0 >> ]

\* The index list: three indices per face, in face order.
FaceIndices(faces) ==
  [ k \in 1..(3 * Len(faces)) |-> faces[((k - 1) \div 3) + 1][((k - 1) % 3) + 1] ]

\* findNamedBone: the index of the first bone of mesh 0 named `name`, or -1.
findNamedBone(sc, name) ==
  IF \E i \in 1..Len(sc.mBones) : sc.mBones[i].mName = name
  THEN (CHOOSE i \in 1..Len(sc.mBones) :
          /\ sc.mBones[i].mName = name
          /\ \A k \in 1..(i - 1) : sc.mBones[k].mName # name) - 1
  ELSE -1

\* A mutant of FindElement: the search looks at all four elements and ends
\* one past the last when none is unset.
FindElementUnbounded(boneIds, element) ==
  IF \E e \in element..LastElement : At(boneIds, e) < 0
  THEN CHOOSE e \in element..LastElement :
         At(boneIds, e) < 0 /\ \A d \in element..(e - 1) : At(boneIds, d) >= 0
  ELSE LastElement + 1

\* The slot search of the weight loop, from `element` on: the first element
\* below 3 whose bone id is negative, or 3.
RECURSIVE FindElement(_, _)
FindElement(boneIds, element) ==
  IF element < LastElement
  THEN IF At(boneIds, element) < 0 THEN element
       ELSE FindElement(boneIds, element + 1)
  ELSE element

\* The body of the weight loop: bone i marks the vertex of `weight`.
MarkVertex(vs, i, weight) ==
  LET v == weight.mVertexId + 1
      element == FindElement(vs[v].boneIds, 0) + 1
  IN [ vs EXCEPT ![v].boneIds[element] = i, ![v].boneWeights[element] = weight.mWeight ]

\* The translation, rotation and scale keyframes of a channel.
TranslationsOf(channel) ==
  [ j \in 1..Len(channel.mPositionKeys) |-> Translate(channel.mPositionKeys[j]) ]
RotationsOf(channel) ==
  [ j \in 1..Len(channel.mRotationKeys) |-> ToMat(channel.mRotationKeys[j]) ]
ScalesOf(channel) ==
  [ j \in 1..Len(channel.mScalingKeys) |-> Scale(channel.mScalingKeys[j]) ]

\* The channel loop from channel c on: a channel of no bone is skipped, a
\* channel of a bone replaces the bone's three keyframe vectors.
RECURSIVE LoadKeyframes(_, _, _)
LoadKeyframes(bs, sc, c) ==
  IF c > Len(sc.mChannels) THEN bs
  ELSE LET channel == sc.mChannels[c]
           boneIndex == findNamedBone(sc, channel.mNodeName)
       IN IF boneIndex < 0 THEN LoadKeyframes(bs, sc, c + 1)
          ELSE LoadKeyframes(
                 [ bs EXCEPT ![boneIndex + 1].translationKeyframes = TranslationsOf(channel),
                             ![boneIndex + 1].rotationKeyframes = RotationsOf(channel),
                             ![boneIndex + 1].scaleKeyframes = ScalesOf(channel) ],
                 sc, c + 1)

\* node->mChildren, in order.
RECURSIVE ChildrenFrom(_, _, _)
ChildrenFrom(sc, node, k) ==
  IF k > Len(sc.nodes) THEN <<>>
  ELSE IF sc.nodes[k].parent = node THEN << k >> \o ChildrenFrom(sc, node, k + 1)
       ELSE ChildrenFrom(sc, node, k + 1)

Children(sc, node) == ChildrenFrom(sc, node, node + 1)

\* loadSkeletonNode, and its loop over the children from child k on.
RECURSIVE loadSkeletonNode(_, _, _, _)
RECURSIVE loadSkeletonChildren(_, _, _, _, _)
loadSkeletonNode(bs, sc, node, parent) ==
  LET boneIndex == findNamedBone(sc, sc.nodes[node].mName)
      linked == IF boneIndex >= 0 THEN [ bs EXCEPT ![boneIndex + 1].parent = parent ] ELSE bs
      ancestor == IF boneIndex >= 0 THEN boneIndex ELSE parent
  IN loadSkeletonChildren(linked, sc, Children(sc, node), 1, ancestor)

loadSkeletonChildren(bs, sc, kids, k, parent) ==
  IF k > Len(kids) THEN bs
  ELSE loadSkeletonChildren(loadSkeletonNode(bs, sc, kids[k], parent), sc, kids, k + 1, parent)

\* What main() can do once it has read through a null pointer (mMeshes[0]
\* of a scene without meshes, mAnimations[0] of one without animations): the
\* process is killed, or the read goes through and yields nothing usable.
NullReadOutcomes == { "killed", "garbage" }

\* Window creation and OpenGL loading: any of the three steps may fail.
CreateWindow ==
  /\ pc = "start"
  /\ \E ok \in BOOLEAN : pc' = IF ok THEN "readFile" ELSE "exitFailure"
  /\ UNCHANGED << scene, script, geometry, animation, camera, shouldClose, loaders, frames, log >>

\* importer.ReadFile and the null check of its result.
ReadFile ==
  /\ pc = "readFile"
  /\ pc' = IF scene.imported THEN "loadMesh" ELSE "exitFailure"
  /\ UNCHANGED << scene, script, geometry, animation, camera, shouldClose, loaders, frames, log >>

\* The mesh block up to the bone loop: indices, vertices, and the two resizes.
LoadMesh ==
  /\ pc = "loadMesh"
  /\ IF scene.mNumMeshes > 0
     THEN /\ indices' = FaceIndices(scene.mFaces)
          /\ vertices' = [ i \in 1..scene.mNumVertices |-> NewVertex(i - 1) ]
          /\ bones' = [ i \in 1..Len(scene.mBones) |-> NewBone ]
          /\ boneTransforms' = [ i \in 1..Len(scene.mBones) |-> ZeroMat ]
          /\ pc' = "loadBone"
     ELSE /\ UNCHANGED << geometry, bones, boneTransforms >>
          /\ pc' = "loadAnimation"
  /\ boneI' = 0
  /\ UNCHANGED << scene, script, frameIndex, camera, shouldClose, weightJ, frames, log >>

\* The head of the bone loop: the test, and the inverse bind matrix of bone i.
LoadBone ==
  /\ pc = "loadBone"
  /\ IF boneI < Len(scene.mBones)
     THEN /\ bones' = [ bones EXCEPT ![boneI + 1].inverseBindMatrix =
                                       assimpToGlmMat4(At(scene.mBones, boneI).mOffsetMatrix) ]
          /\ weightJ' = 0
          /\ pc' = "loadWeight"
     ELSE /\ UNCHANGED << bones, weightJ >>
          /\ pc' = "loadAnimation"
  /\ UNCHANGED << scene, script, geometry, boneTransforms, frameIndex, camera, shouldClose,
                  boneI, frames, log >>

\* One turn of the weight loop of bone i, or its end.
LoadWeight ==
  /\ pc = "loadWeight"
  /\ IF weightJ < Len(At(scene.mBones, boneI).mWeights)
     THEN /\ vertices' = MarkVertex(vertices, boneI, At(At(scene.mBones, boneI).mWeights, weightJ))
          /\ weightJ' = weightJ + 1
          /\ UNCHANGED << boneI, pc >>
     ELSE /\ boneI' = boneI + 1
          /\ pc' = "loadBone"
          /\ UNCHANGED << vertices, weightJ >>
  /\ UNCHANGED << scene, script, indices, animation, camera, shouldClose, frames, log >>

\* The animation block.  scene->mAnimations[0] of a scene without animation,
\* and findNamedBone's scene->mMeshes[0] of a scene without mesh, read
\* through a null pointer.
LoadAnimation ==
  /\ pc = "loadAnimation"
  /\ IF scene.mNumAnimations = 0 \/ (scene.mNumMeshes = 0 /\ scene.mChannels # <<>>)
     THEN /\ \E outcome \in NullReadOutcomes :
               pc' = IF outcome = "killed" THEN "crashed" ELSE "loadSkeleton"
          /\ UNCHANGED bones
     ELSE /\ bones' = LoadKeyframes(bones, scene, 1)
          /\ pc' = "loadSkeleton"
  /\ UNCHANGED << scene, script, geometry, boneTransforms, frameIndex, camera, shouldClose,
                  loaders, frames, log >>

\* loadSkeletonNode(scene, scene->mRootNode, nullptr); its findNamedBone reads
\* scene->mMeshes[0].
LoadSkeleton ==
  /\ pc = "loadSkeleton"
  /\ IF scene.mNumMeshes = 0
     THEN /\ \E outcome \in NullReadOutcomes :
               pc' = IF outcome = "killed" THEN "crashed" ELSE "setup"
          /\ UNCHANGED bones
     ELSE /\ bones' = loadSkeletonNode(bones, scene, 1, NullBone)
          /\ pc' = "setup"
  /\ UNCHANGED << scene, script, geometry, boneTransforms, frameIndex, camera, shouldClose,
                  loaders, frames, log >>

\* Geometry buffers, shader compilation and linking, uniform locations: any
\* of these steps may fail.
SetUpGraphics ==
  /\ pc = "setup"
  /\ \E ok \in BOOLEAN : pc' = IF ok THEN "loop" ELSE "exitFailure"
  /\ UNCHANGED << scene, script, geometry, animation, camera, shouldClose, loaders, frames, log >>

\* ------------------------------------------------------------ updateAnimation
Unanimated(bone) ==
  \/ bone.translationKeyframes = <<>>
  \/ bone.rotationKeyframes = <<>>
  \/ bone.scaleKeyframes = <<>>

\* keyframes.at(frameIndex % keyframes.size()), of a vector that is not empty.
KeyframeAt(keyframes, f) == At(keyframes, UIntMod(f, Len(keyframes)))

\* A mutant of PosedTransform: scale * rotation * translation.
PosedTransformReversed(bone, f) ==
  MatMul(MatMul(KeyframeAt(bone.scaleKeyframes, f), KeyframeAt(bone.rotationKeyframes, f)),
         KeyframeAt(bone.translationKeyframes, f))

\* translation * rotation * scale at frame f.
PosedTransform(bone, f) ==
  MatMul(MatMul(KeyframeAt(bone.translationKeyframes, f), KeyframeAt(bone.rotationKeyframes, f)),
         KeyframeAt(bone.scaleKeyframes, f))

\* A mutant of PoseBones: the keyframe vectors are used as queues, the
\* keyframe in use moved from the front to the back.
PoseBonesConsuming(bs, f) ==
  [ i \in 1..Len(bs) |->
      IF \A k \in 1..i : ~Unanimated(bs[k])
      THEN [ bs[i] EXCEPT !.posedTransform = PosedTransform(bs[i], f),
                          !.translationKeyframes = Append(Tail(@), Head(@)) ]
      ELSE bs[i] ]

\* The bones the first loop reaches: all of them, or those before the first
\* bone one of whose keyframe vectors is empty.
Posable(bs) == { i \in 1..Len(bs) : \A k \in 1..i : ~Unanimated(bs[k]) }

\* The first loop: the posed transform of every bone it reaches.
PoseBones(bs, f) ==
  [ i \in 1..Len(bs) |->
      IF i \in Posable(bs) THEN [ bs[i] EXCEPT !.posedTransform = PosedTransform(bs[i], f) ]
      ELSE bs[i] ]

\* Whether following parent pointers from `parent` reaches nullptr within
\* `steps` steps (a walk over more steps than there are bones never does).
RECURSIVE ChainEnds(_, _, _)
ChainEnds(bs, parent, steps) ==
  IF parent = NullBone THEN TRUE
  ELSE IF steps = 0 THEN FALSE
       ELSE ChainEnds(bs, At(bs, parent).parent, steps - 1)

\* A mutant of WalkParents: the parent's transform multiplied from the right.
RECURSIVE WalkParentsRight(_, _, _)
WalkParentsRight(bs, posedTransform, parent) ==
  IF parent = NullBone THEN posedTransform
  ELSE WalkParentsRight(bs, MatMul(posedTransform, At(bs, parent).posedTransform),
                        At(bs, parent).parent)

\* The while loop over the parents, from `parent` on.
RECURSIVE WalkParents(_, _, _)
WalkParents(bs, posedTransform, parent) ==
  IF parent = NullBone THEN posedTransform
  ELSE WalkParents(bs, MatMul(At(bs, parent).posedTransform, posedTransform),
                   At(bs, parent).parent)

\* The bones the second loop finishes: all of them, or those before the first
\* bone whose walk over the parents never ends.
Walkable(bs) ==
  { i \in 1..Len(bs) : \A k \in 1..i : ChainEnds(bs, bs[k].parent, Len(bs)) }

\* The second loop: the bone transform of every bone it finishes.
ComposeTransforms(bs, bts) ==
  [ i \in 1..Len(bts) |->
      IF i \in Walkable(bs)
      THEN MatMul(WalkParents(bs, bs[i].posedTransform, bs[i].parent), bs[i].inverseBindMatrix)
      ELSE bts[i] ]

\* -------------------------------------------------------------- main loop
\* The loop condition.  An iteration past MaxFrames is not followed.
LoopTest ==
  /\ pc = "loop"
  /\ pc' = IF shouldClose THEN "exitSuccess" ELSE "increment"
  /\ UNCHANGED << scene, script, geometry, animation, camera, shouldClose, loaders, frames, log >>

\* A mutant of Increment: the call of updateAnimation is missing, the draw
\* follows the increment.
IncrementThenRender ==
  /\ pc = "increment"
  /\ frames < MaxFrames
  /\ frameIndex' = UIntInc(frameIndex)
  /\ frames' = frames + 1
  /\ log' = Append(log, [op |-> "increment", frame |-> frameIndex'])
  /\ pc' = "render"
  /\ UNCHANGED << scene, script, geometry, bones, boneTransforms, camera, shouldClose, loaders >>

\* ++frameIndex.
Increment ==
  /\ pc = "increment"
  /\ frames < MaxFrames
  /\ frameIndex' = UIntInc(frameIndex)
  /\ frames' = frames + 1
  /\ log' = Append(log, [op |-> "increment", frame |-> frameIndex'])
  /\ pc' = "update"
  /\ UNCHANGED << scene, script, geometry, bones, boneTransforms, camera, shouldClose, loaders >>

\* updateAnimation().  frameIndex % 0 on an empty keyframe vector and the
\* .at() that follows end the process; a parent chain that never reaches
\* nullptr keeps the while loop running for ever.
UpdateAnimation ==
  /\ pc = "update"
  /\ bones' = PoseBones(bones, frameIndex)
  /\ IF Posable(bones) # 1..Len(bones)
     THEN /\ pc' = "crashed"
          /\ UNCHANGED << boneTransforms, log >>
     ELSE /\ boneTransforms' = ComposeTransforms(bones', boneTransforms)
          /\ IF Walkable(bones) # 1..Len(bones)
             THEN /\ pc' = "hung"
                  /\ UNCHANGED log
             ELSE /\ pc' = "render"
                  /\ log' = Append(log, [op |-> "update", frame |-> frameIndex,
                                         transforms |-> boneTransforms'])
  /\ UNCHANGED << scene, script, geometry, frameIndex, camera, shouldClose, loaders, frames >>

\* glClear ... glDrawElements, glfwSwapBuffers: the draw reads boneTransforms
\* and the camera.
Render ==
  /\ pc = "render"
  /\ log' = Append(log, [op |-> "draw", frame |-> frameIndex, transforms |-> boneTransforms])
  /\ pc' = "poll"
  /\ UNCHANGED << scene, script, geometry, animation, camera, shouldClose, loaders, frames >>

\* The next event, when glfwPollEvents is dispatching it.
Dispatching(type) ==
  /\ pc = "poll"
  /\ script # <<>>
  /\ Head(script).poll <= frames
  /\ Head(script).event.type = type

Dispatched ==
  /\ script' = Tail(script)
  /\ log' = Append(log, [op |-> "callback"])
  /\ UNCHANGED << pc, scene, geometry, animation, loaders, frames >>

\* cursorPositionCallback(window, x, y).
cursorPositionCallback ==
  /\ Dispatching("cursor")
  /\ LET x == Head(script).event.x
     IN /\ cameraAngle' = IF mouseDown THEN cameraAngle - (x - lastMouseX) ELSE cameraAngle
        /\ lastMouseX' = x
  /\ Dispatched
  /\ UNCHANGED << mouseDown, cameraDistance, shouldClose >>

\* mouseButtonCallback(window, button, action, mods).
mouseButtonCallback ==
  /\ Dispatching("button")
  /\ LET e == Head(script).event
     IN mouseDown' = IF e.button = GLFW_MOUSE_BUTTON_LEFT THEN e.action = GLFW_PRESS
                     ELSE mouseDown
  /\ Dispatched
  /\ UNCHANGED << cameraAngle, cameraDistance, lastMouseX, shouldClose >>

\* scrollCallback(window, x, y); distances are in halves.
scrollCallback ==
  /\ Dispatching("scroll")
  /\ LET dollied == cameraDistance - 2 * Head(script).event.y
     IN cameraDistance' = IF dollied < cameraMinDistance THEN cameraMinDistance ELSE dollied
  /\ Dispatched
  /\ UNCHANGED << mouseDown, cameraAngle, lastMouseX, shouldClose >>

\* The window's close request: GLFW sets the close flag.
CloseRequest ==
  /\ Dispatching("close")
  /\ shouldClose' = TRUE
  /\ Dispatched
  /\ UNCHANGED camera

\* glfwPollEvents returns once the events that had arrived are dispatched.
PollEventsReturn ==
  /\ pc = "poll"
  /\ IF script = <<>> THEN TRUE ELSE Head(script).poll > frames
  /\ log' = Append(log, [op |-> "poll"])
  /\ pc' = "loop"
  /\ UNCHANGED << scene, script, geometry, animation, camera, shouldClose, loaders, frames >>

Load ==
  \/ CreateWindow
  \/ ReadFile
  \/ LoadMesh
  \/ LoadBone
  \/ LoadWeight
  \/ LoadAnimation
  \/ LoadSkeleton
  \/ SetUpGraphics

MainLoop ==
  \/ LoopTest
  \/ Increment
  \/ UpdateAnimation
  \/ Render
  \/ cursorPositionCallback
  \/ mouseButtonCallback
  \/ scrollCallback
  \/ CloseRequest
  \/ PollEventsReturn

Next == Load \/ MainLoop

Spec == Init /\ [][Next]_vars

\* ---------------------------------------------------- late in a long run
\* The weight loops of main() from bone i, weight j on.
RECURSIVE MarkVertices(_, _, _, _)
MarkVertices(vs, sc, i, j) ==
  IF i >= Len(sc.mBones) THEN vs
  ELSE IF j < Len(At(sc.mBones, i).mWeights)
       THEN MarkVertices(MarkVertex(vs, i, At(At(sc.mBones, i).mWeights, j)), sc, i, j + 1)
       ELSE MarkVertices(vs, sc, i + 1, 0)

\* vertices and bones as loading leaves them, for a scene with a mesh and an
\* animation.
LoadedVertices(sc) ==
  MarkVertices([ i \in 1..sc.mNumVertices |-> NewVertex(i - 1) ], sc, 0, 0)

LoadedBones(sc) ==
  loadSkeletonNode(
    LoadKeyframes([ i \in 1..Len(sc.mBones) |->
                      [ NewBone EXCEPT !.inverseBindMatrix =
                                         assimpToGlmMat4(sc.mBones[i].mOffsetMatrix) ] ],
                  sc, 1),
    sc, 1, NullBone)

\* The main loop never stops on a scene: every bone is animated and every
\* parent chain ends.
Playable(sc) ==
  /\ sc.imported /\ sc.mNumMeshes > 0 /\ sc.mNumAnimations > 0
  /\ LET bs == LoadedBones(sc)
     IN Posable(bs) = 1..Len(bs) /\ Walkable(bs) = 1..Len(bs)

(***************************************************************************)
(* The top of the main loop when frameIndex is d iterations from its       *)
(* largest value (after 2^32 - d iterations without an input event), for a *)
(* playable keyframe scene or the demo scene.  frames, log and the         *)
(* scripts' call numbers count from this point on.                         *)
(***************************************************************************)
InitLate ==
  /\ pc = "loop"
  /\ \/ \E s \in KeyframeScenes : scene = s /\ script = <<>>
     \/ ScriptInput(scene, script)
  /\ Playable(scene)
  /\ \E d \in 1..MaxFrames : frameIndex = << HalfRange - 1, HalfRange - d >>
  /\ vertices = LoadedVertices(scene)
  /\ indices = FaceIndices(scene.mFaces)
  /\ bones = PoseBones(LoadedBones(scene), frameIndex)
  /\ boneTransforms = ComposeTransforms(bones, [ i \in 1..Len(bones) |-> ZeroMat ])
  /\ mouseDown = FALSE
  /\ cameraAngle = cameraAngleInit
  /\ cameraDistance = cameraDistanceInit
  /\ lastMouseX = 0
  /\ shouldClose = FALSE
  /\ boneI = Len(scene.mBones)
  /\ weightJ = IF scene.mBones = <<>> THEN 0
               ELSE Len(scene.mBones[Len(scene.mBones)].mWeights)
  /\ frames = 0
  /\ log = <<>>

SpecLate == InitLate /\ [][MainLoop]_vars

\* What InitLate rests on: in a run from the start, the top of the main loop
\* is the loaded state posed at the current frame.
LoadedState ==
  (pc = "loop" /\ frames > 0 /\ scene.mNumMeshes > 0 /\ scene.mNumAnimations > 0) =>
    /\ Playable(scene)
    /\ vertices = LoadedVertices(scene)
    /\ indices = FaceIndices(scene.mFaces)
    /\ bones = PoseBones(LoadedBones(scene), frameIndex)
    /\ boneTransforms = ComposeTransforms(bones, [ i \in 1..Len(bones) |-> ZeroMat ])
    /\ boneI = Len(scene.mBones)
    /\ weightJ = IF scene.mBones = <<>> THEN 0
                 ELSE Len(scene.mBones[Len(scene.mBones)].mWeights)

\* ------------------------------------------------------------------ claims
\* updateAnimation has returned and nothing has run since but the draw.
Updated == pc \in { "render", "poll" }

\* The model-space posed transform of bone b (an index), top down: the local
\* posed transform of a bone without parent, else the parent's model-space
\* transform times the bone's local one.  `depth` bounds the recursion.
RECURSIVE ModelSpace(_, _, _)
ModelSpace(bs, b, depth) ==
  IF At(bs, b).parent = NullBone \/ depth = 0 THEN At(bs, b).posedTransform
  ELSE MatMul(ModelSpace(bs, At(bs, b).parent, depth - 1), At(bs, b).posedTransform)

\* C1: after updateAnimation, the bone transform of every bone B is
\* local(root) * ... * local(parent(B)) * local(B) * inverseBind(B): the
\* model-space transform of a bone without parent is its local posed
\* transform, that of a bone with parent P is modelSpace(P) * local(B),
\* whatever the index order of the bone and its ancestors.
C1_BoneTransforms ==
  Updated =>
    \A b \in 0..(Len(bones) - 1) :
      At(boneTransforms, b) =
        MatMul(ModelSpace(bones, b, Len(bones)), At(bones, b).inverseBindMatrix)

\* C1's case: a bone below its parent and grandparent, stored before its
\* parent in the bone array, whose local transform does not commute with its
\* parent's.
C1_Witness ==
  /\ Updated
  /\ \E b \in 0..(Len(bones) - 1) :
       LET p == At(bones, b).parent
       IN /\ p # NullBone
          /\ p > b
          /\ At(bones, p).parent # NullBone
          /\ MatMul(At(bones, p).posedTransform, At(bones, b).posedTransform)
               # MatMul(At(bones, b).posedTransform, At(bones, p).posedTransform)

\* The frame counter as a number, while it is below 2^16.
FrameNumber == frameIndex[2]

\* The keyframes of the spec's scenario: translations by 0 and by 1, one
\* identity rotation, one identity scale.
ScenarioBone(bone) ==
  /\ bone.translationKeyframes = << Translate(0), Translate(1) >>
  /\ bone.rotationKeyframes = << Identity >>
  /\ bone.scaleKeyframes = << Identity >>

\* C2: after updateAnimation at frame f, every bone's posed transform is
\* translationKeyframes[f mod lenT] * rotationKeyframes[f mod lenR] *
\* scaleKeyframes[f mod lenS], each index modulo its own sequence's length;
\* a bone with translations [t0, t1] and identity rotation and scale is at
\* t0 on even frames and at t1 on odd ones.
C2_PosedTransform ==
  (Updated /\ frameIndex[1] = 0) =>
    \A b \in 1..Len(bones) :
      LET T == bones[b].translationKeyframes
          R == bones[b].rotationKeyframes
          S == bones[b].scaleKeyframes
      IN /\ bones[b].posedTransform =
              MatMul(T[(FrameNumber % Len(T)) + 1],
                     MatMul(R[(FrameNumber % Len(R)) + 1], S[(FrameNumber % Len(S)) + 1]))
         /\ ScenarioBone(bones[b]) =>
              bones[b].posedTransform =
                IF FrameNumber % 2 = 0 THEN Translate(0) ELSE Translate(1)

\* C2's case: frame 3, a bone of the scenario (sequences of lengths 2, 1
\* and 1) next to a bone whose translation, rotation and scale at that frame
\* do not commute.
C2_Witness ==
  /\ Updated
  /\ FrameNumber = 3
  /\ \E b \in 1..Len(bones) : ScenarioBone(bones[b])
  /\ \E b \in 1..Len(bones) :
       bones[b].posedTransform # PosedTransformReversed(bones[b], frameIndex)

\* The import fails, or the scene holds no mesh, or no animation.
LoadFatal == ~scene.imported \/ scene.mNumMeshes = 0 \/ scene.mNumAnimations = 0

IsUpdate(entry) == entry.op = "update"

\* The bone transforms arrays updateAnimation has computed, in order.
Updates == SelectSeq(log, IsUpdate)

\* Every bone's three keyframe sequences have length L.
UniformLength(L) ==
  \A b \in 1..Len(bones) :
    /\ Len(bones[b].translationKeyframes) = L
    /\ Len(bones[b].rotationKeyframes) = L
    /\ Len(bones[b].scaleKeyframes) = L

\* C3: if every bone's three keyframe sequences have the same length L >= 1,
\* the bone transforms computed at a value of the frame counter equal those
\* computed L increments later, for every value of the 32-bit counter.
C3_Periodicity ==
  \A L \in 1..MaxKeys :
    UniformLength(L) =>
      \A k \in 1..(Len(Updates) - L) : Updates[k].transforms = Updates[k + L].transforms

\* C4: whenever updateAnimation runs, each of the three keyframe sequences
\* of every bone has at least one keyframe.
C4_KeyframesNotEmpty ==
  (pc = "update" /\ ~LoadFatal) => \A b \in 1..Len(bones) : ~Unanimated(bones[b])

\* loadSkeletonNode(scene, root, nullptr) has returned.
SkeletonLoaded ==
  pc \in { "setup", "loop", "increment", "update", "render", "poll", "hung", "exitSuccess" }

\* C5: after loadSkeletonNode has traversed the hierarchy, following parent
\* references from any bone reaches a bone without parent and never comes
\* back to a bone.
C5_ParentsAcyclic ==
  (SkeletonLoaded /\ ~LoadFatal) =>
    \A b \in 1..Len(bones) : ChainEnds(bones, bones[b].parent, Len(bones))

IsBoneName(name) == \E i \in 1..Len(scene.mBones) : scene.mBones[i].mName = name

\* The nearest proper ancestor of a node whose name is a mesh bone name, from
\* node `ancestor` upwards (0: there is none).
RECURSIVE NearestBoneNode(_)
NearestBoneNode(ancestor) ==
  IF ancestor = 0 THEN 0
  ELSE IF IsBoneName(scene.nodes[ancestor].mName) THEN ancestor
       ELSE NearestBoneNode(scene.nodes[ancestor].parent)

\* parent is what node n asks of a bone named as n is: a bone named as n's
\* nearest bone ancestor, or nullptr when n has none.
ParentFits(parent, n) ==
  LET a == NearestBoneNode(scene.nodes[n].parent)
  IN IF a = 0 THEN parent = NullBone
     ELSE parent # NullBone /\ At(scene.mBones, parent).mName = scene.nodes[a].mName

\* C6: after loadSkeletonNode(scene, root, none), the parent of every mesh
\* bone b is the bone named by the nearest proper ancestor, bearing a mesh
\* bone name, of a node named b, or none if that node has no such ancestor
\* or no node is named b.
C6_NearestBoneAncestor ==
  (SkeletonLoaded /\ ~LoadFatal) =>
    \A b \in 1..Len(bones) :
      LET named == { n \in 1..Len(scene.nodes) : scene.nodes[n].mName = scene.mBones[b].mName }
      IN IF named = {} THEN bones[b].parent = NullBone
         ELSE \E n \in named : ParentFits(bones[b].parent, n)

\* The (bone, weight) pairs the weight loops have gone through so far.
Marked ==
  IF scene.mNumMeshes = 0 \/ pc \in { "start", "readFile", "loadMesh" } THEN {}
  ELSE { t \in UNION { { << i, j >> : j \in 0..(Len(At(scene.mBones, i).mWeights) - 1) } :
                       i \in 0..(Len(scene.mBones) - 1) } :
           t[1] < boneI \/ (t[1] = boneI /\ pc = "loadWeight" /\ t[2] < weightJ) }

\* C7: every (bone, vertex, weight) triple of the mesh is written to the
\* lowest unset slot of its vertex, so that every triple gone through is in
\* some slot of its vertex and no slot is written twice.
C7_EveryTripleKept ==
  \A t \in Marked :
    LET weight == At(At(scene.mBones, t[1]).mWeights, t[2])
        vertex == At(vertices, weight.mVertexId)
    IN \E k \in 1..4 : vertex.boneIds[k] = t[1] /\ vertex.boneWeights[k] = weight.mWeight

\* C8: on a failed import, a scene without mesh or a scene without animation
\* the program ends by exiting with a failure status; it never enters the
\* main loop, evaluates no pose and draws nothing.
C8_LoadFatalAborts ==
  LoadFatal =>
    /\ pc \notin { "loop", "increment", "update", "render", "poll", "hung" }
    /\ pc \in { "crashed", "exitSuccess", "exitFailure" } => pc = "exitFailure"
    /\ log = <<>>

\* The operation before log entry k ("poll" before the first).
Before(k) == IF k = 1 THEN "poll" ELSE log[k - 1].op

IsIncrement(entry) == entry.op = "increment"

\* C9: every iteration of the main loop increments frameIndex once, then
\* runs updateAnimation, then draws, then polls the input; every draw reads
\* the bone transforms computed for the current frameIndex, callbacks run
\* only between a draw and the end of the poll, and the loop is left only
\* at the top of an iteration, the close flag set.
C9_LoopOrder ==
  /\ \A k \in 1..Len(log) :
       /\ log[k].op = "increment" => Before(k) = "poll"
       /\ log[k].op = "update" => Before(k) = "increment" /\ log[k].frame = log[k - 1].frame
       /\ log[k].op = "draw" =>
            /\ Before(k) = "update"
            /\ log[k].frame = log[k - 1].frame
            /\ log[k].transforms = log[k - 1].transforms
       /\ log[k].op \in { "callback", "poll" } => Before(k) \in { "draw", "callback" }
  /\ LET increments == SelectSeq(log, IsIncrement)
     IN /\ Len(increments) = frames
        /\ \A k \in 1..Len(increments) : increments[k].frame = << 0, k >>
  /\ pc = "update" => log # <<>> /\ log[Len(log)] = [op |-> "increment", frame |-> frameIndex]
  /\ pc = "poll" => log # <<>> /\ log[Len(log)].op \in { "draw", "callback" }
  /\ pc = "exitSuccess" => shouldClose /\ (log = <<>> \/ log[Len(log)].op = "poll")

\* C9's case: the third iteration has drawn, after a callback ran in an
\* earlier poll.
C9_Witness ==
  /\ pc = "poll"
  /\ frames = 3
  /\ log[Len(log)].op = "draw"
  /\ \E k \in 1..Len(log) : log[k].op = "callback"

\* An input callback runs: a step within glfwPollEvents that leaves the
\* window's close flag alone.
CallbackStep == pc = "poll" /\ pc' = "poll" /\ shouldClose' = shouldClose

\* C10: once loading has finished, updateAnimation changes only the bones'
\* posed transforms and the entries of boneTransforms, and the input
\* callbacks change only the camera state.
C10_FrameEffect ==
  [][ /\ pc = "update" =>
           /\ Len(bones') = Len(bones)
           /\ \A b \in 1..Len(bones) :
                bones'[b] = [ bones[b] EXCEPT !.posedTransform = bones'[b].posedTransform ]
           /\ Len(boneTransforms') = Len(boneTransforms)
           /\ UNCHANGED << vertices, indices, frameIndex, camera, scene >>
      /\ CallbackStep => UNCHANGED << bones, boneTransforms, vertices, indices, frameIndex, scene >>
    ]_vars

\* C10's case: updateAnimation has changed the posed transform of a bone
\* between two frames, and callbacks have changed the camera.
C10_Witness ==
  /\ Updated
  /\ frames = 2
  /\ mouseDown
  /\ cameraAngle # cameraAngleInit
  /\ \E k \in 1..Len(Updates) : Updates[k].transforms # boneTransforms

\* A turn of the weight loop that marks a vertex.
WeightStep ==
  pc = "loadWeight" /\ weightJ < Len(At(scene.mBones, boneI).mWeights)

\* Every vertex has its four slots, each unset or holding the index of a
\* bone of the mesh.
SlotsInRange ==
  \A v \in 1..Len(vertices) :
    /\ DOMAIN vertices[v].boneIds = 1..4
    /\ DOMAIN vertices[v].boneWeights = 1..4
    /\ \A k \in 1..4 :
         vertices[v].boneIds[k] = UnsetBoneId
           \/ vertices[v].boneIds[k] \in 0..(Len(scene.mBones) - 1)

\* C11: for any number of bones affecting a vertex, every write of the
\* weight loop goes to one of the slots 0..3 of that vertex and to nothing
\* else, and every vertex keeps four slots, each unset or holding a bone
\* index in 0..N-1.
C11_WritesInRange ==
  [][ /\ SlotsInRange'
      /\ WeightStep =>
           LET weight == At(At(scene.mBones, boneI).mWeights, weightJ)
               v == weight.mVertexId + 1
           IN /\ Len(vertices') = Len(vertices)
              /\ \A u \in 1..Len(vertices) : u # v => vertices'[u] = vertices[u]
              /\ \E k \in 1..4 :
                   /\ vertices'[v].boneIds[k] = boneI
                   /\ vertices'[v].boneWeights[k] = weight.mWeight
                   /\ \A m \in (1..4) \ {k} :
                        /\ vertices'[v].boneIds[m] = vertices[v].boneIds[m]
                        /\ vertices'[v].boneWeights[m] = vertices[v].boneWeights[m]
                   /\ vertices'[v] = [ vertices[v] EXCEPT !.boneIds[k] = boneI,
                                                          !.boneWeights[k] = weight.mWeight ]
    ]_vars

\* C11's case: the weight loops have ended on a mesh more than four of whose
\* bones weight vertex 0, all four slots of which are populated.
C11_Witness ==
  /\ pc = "loadAnimation"
  /\ Cardinality({ t \in Marked : At(At(scene.mBones, t[1]).mWeights, t[2]).mVertexId = 0 }) > 4
  /\ \A k \in 1..4 : vertices[1].boneIds[k] # UnsetBoneId

====
